---- MODULE Spec2Model ----
(***************************************************************************)
(* Model of labot/mitm/bridge.py: the relay loop of BridgeHandler and the  *)
(* handle methods of DummyBridgeHandler, MsgBridgeHandler,                 *)
(* InjectorBridgeHandler and LucInjector.                                  *)
(*                                                                         *)
(* A byte stream is a sequence of naturals.  What the bridge writes on a   *)
(* socket is kept as a sequence of pairs <<byte, tag>>, the tag telling    *)
(* whether the byte was relayed ("fwd") or injected ("inj").               *)
(* Time is counted in tenths of a second.                                  *)
(***************************************************************************)
EXTENDS Integers, Sequences, FiniteSets, TLC

\* ------------------------------------------------------------------ bounds
MaxFrames == 2
MaxInject == 2
MaxTime == 9
DbSize == 1
MaxCut == 4
MaxTurns == 6
MaxControls == 2
MaxClock == 27

\* ------------------------------------------------------- program constants
RecvSize == 8192
HashLen == 48
PacingThreshold == 8
ElemId == 522694
SkillUid == 136144973

Items == <<7, 8, 9>>
\* the None of the placeholders itemsleft is built with
NoItem == 0

Conns == {"coJeu", "coSer"}
conns == <<"coJeu", "coSer">>
other == [c \in Conns |-> IF c = "coJeu" THEN "coSer" ELSE "coJeu"]

from_client(origin) == origin = "coJeu"

None == [none |-> TRUE]

\* --------------------------------------------------------------- registry
ChatId == 1
ExchId == 2
MoveId == 3
SearchId == 4
LeaveId == 5
UseId == 6
UnknownId == 9

msg_from_id == {ChatId, ExchId, MoveId, SearchId, LeaveId, UseId}

Stop == 1
Lessgo == 2
Hello == 3
Stooop == 11
Gooo == 12

\* number of payload bytes protocol.read consumes for a message of this id
Need(id, data) ==
    CASE id = ChatId -> 2
      [] id = ExchId -> IF Len(data) = 0 THEN 1 ELSE 1 + 4 * data[1]
      [] id = MoveId -> 1
      [] id = SearchId -> 2
      [] id = LeaveId -> 0
      [] id = UseId -> 2
      [] OTHER -> 0

\* msg.data.remaining() after protocol.read; negative: the read ran past the
\* end of the payload and raised
Remaining(id, data) == Len(data) - Need(id, data)

\* ------------------------------------------------------------ wire format
Prefix(s, n) == SubSeq(s, 1, n)
Suffix(s, n) == SubSeq(s, n + 1, Len(s))

\* Msg.bytes(): [id][count, client frames only][length][payload]
MsgBytes(m, fc) ==
    IF fc THEN <<m.id, m.count, Len(m.data)>> \o m.data
          ELSE <<m.id, Len(m.data)>> \o m.data

\* Msg.fromRaw(buf, from_client): the first complete frame of buf and the
\* rest of buf, or None and buf untouched when no complete frame is there
fromRaw(b, fc) ==
    LET hl == IF fc THEN 3 ELSE 2 IN
    IF Len(b) < hl \/ Len(b) < hl + b[hl]
    THEN [msg |-> None, rest |-> b]
    ELSE [msg |-> [id |-> b[1], count |-> IF fc THEN b[2] ELSE 0,
                   data |-> SubSeq(b, hl + 1, hl + b[hl])],
          rest |-> Suffix(b, hl + b[hl])]

RECURSIVE ParseAll(_, _)
ParseAll(b, fc) ==
    LET fr == fromRaw(b, fc) IN
    IF fr.msg = None THEN <<>> ELSE <<fr.msg>> \o ParseAll(fr.rest, fc)

\* ------------------------------------------------------------- socket log
Tagged(data, tag) == [i \in 1..Len(data) |-> <<data[i], tag>>]
Bytes(s) == [i \in 1..Len(s) |-> s[i][1]]
IsFwd(e) == e[2] = "fwd"
Fwd(s) == Bytes(SelectSeq(s, IsFwd))

VARIABLES
    policy,       \* the class proxy_callback instantiates
    mode,         \* how the session is exercised: "relay", "inject", "script", "auto"
    dumper,       \* InjectorBridgeHandler.dumper: "none", "ok" or "broken"
    pc,           \* position of loop(): "select", "iter", "spin", "done"
    sel,          \* what the last select.select returned: [r, x]
    ri,           \* index in sel.r of the connection the for loop reads next
    wire,         \* bytes a peer has sent that loop() has not read yet
    cut,          \* the last recv on the connection left bytes unread
    eof,          \* the peer has closed its end
    nframes,      \* frames emitted by the peers so far
    clientSeq,    \* counter the client put in its last frame
    closed,       \* number of close() calls on each connection
    why,          \* how loop() left its while loop
    excn,         \* the exception that left handle, "none" if none
    eofSeen,      \* a recv has returned b""
    emptyHandled, \* handle has been called with b""
    recvd,        \* every byte recv has returned, per connection
    sent,         \* every byte written on each connection, tagged
    buf,          \* self.buf
    flog,         \* one entry per frame Msg.fromRaw has extracted
    counter,      \* self.counter
    itc,          \* self.injected_to_client
    its,          \* self.injected_to_server
    db,           \* self.db
    injLog,       \* one entry per structured message given to send_to_server
    ninject,      \* external send_to_* calls so far
    script,       \* LucInjector.script
    itemsleft,    \* LucInjector.itemsleft
    timer,        \* LucInjector.timer
    injections,   \* LucInjector.injections
    now,          \* time.time()
    reports,      \* requests.get calls made
    items,        \* LucInjector.items
    mlog          \* one entry per call of LucInjector.handle_message

loopVars == <<pc, sel, ri, closed, why, excn, eofSeen, emptyHandled>>
envVars == <<wire, cut, eof, nframes, clientSeq, now>>
cfgVars == <<policy, mode, dumper>>
selfVars == <<recvd, sent, buf, flog, counter, itc, its, db, injLog, script,
              itemsleft, timer, injections, reports, items, mlog>>
vars == <<loopVars, envVars, cfgVars, selfVars, ninject>>

Self == [recvd |-> recvd, sent |-> sent, buf |-> buf, flog |-> flog,
         counter |-> counter, itc |-> itc, its |-> its, db |-> db,
         injLog |-> injLog, script |-> script, itemsleft |-> itemsleft,
         timer |-> timer, injections |-> injections, reports |-> reports,
         items |-> items, mlog |-> mlog,
         dumper |-> dumper, net |-> "up", now |-> now,
         exc |-> "none", spin |-> FALSE]

Commit(h) ==
    /\ recvd' = h.recvd
    /\ sent' = h.sent
    /\ buf' = h.buf
    /\ flog' = h.flog
    /\ counter' = h.counter
    /\ itc' = h.itc
    /\ its' = h.its
    /\ db' = h.db
    /\ injLog' = h.injLog
    /\ script' = h.script
    /\ itemsleft' = h.itemsleft
    /\ timer' = h.timer
    /\ injections' = h.injections
    /\ reports' = h.reports
    /\ items' = h.items
    /\ mlog' = h.mlog

\* ------------------------------------------------------ DummyBridgeHandler
\* socket.sendall(data) on connection c
sendall(s, c, data, tag) == [s EXCEPT ![c] = @ \o Tagged(data, tag)]

\* as DummyHandle, writing on the connection the bytes came from
DummyHandleEcho(h, data, origin) ==
    [h EXCEPT !.sent = sendall(h.sent, origin, data, "fwd")]

DummyHandle(h, data, origin) ==
    [h EXCEPT !.sent = sendall(h.sent, other[origin], data, "fwd")]

\* -------------------------------------------------------- MsgBridgeHandler
\* self.buf[origin] += data
BufAppend(h, data, origin) == [h EXCEPT !.buf[origin] = @ \o data]

\* the entry flog keeps for a frame fromRaw has just extracted from
\* buf[origin]: relayed tells whether, at that moment, the bytes of the frame
\* up to its last one had been written on the opposite connection
Entry(h, m, origin, rest, called, exc) ==
    [o |-> origin, id |-> m.id, count |-> m.count,
     known |-> m.id \in msg_from_id,
     rem |-> Remaining(m.id, m.data),
     data |-> m.data, called |-> called, exc |-> exc,
     relayed |-> LET n == Len(h.recvd[origin]) - Len(rest) IN
                 /\ Len(Fwd(h.sent[other[origin]])) >= n
                 /\ Prefix(Fwd(h.sent[other[origin]]), n)
                        = Prefix(h.recvd[origin], n),
     newcount |-> m.count]

Log(h, e) == [h EXCEPT !.flog = Append(@, e)]

Raise(h, e) == [h EXCEPT !.exc = e]

\* PrintingMsgBridgeHandler.handle_message: prints only
PrintMessage(h, m, origin) == h

\* the assert of MsgBridgeHandler.handle and LucInjector.handle
FullyRead(id, data) == Remaining(id, data) = 0

RECURSIVE MsgLoop(_, _)
MsgLoop(h, origin) ==
    LET fr == fromRaw(h.buf[origin], from_client(origin))
        m == fr.msg
        hb == [h EXCEPT !.buf[origin] = fr.rest]
    IN  IF m = None THEN h
        ELSE IF m.id \in msg_from_id
        THEN IF Remaining(m.id, m.data) < 0
             THEN Raise(Log(hb, Entry(hb, m, origin, fr.rest, FALSE, "IndexError")),
                        "IndexError")
             ELSE IF ~FullyRead(m.id, m.data)
             THEN Raise(Log(hb, Entry(hb, m, origin, fr.rest, FALSE,
                                         "AssertionError")),
                        "AssertionError")
             ELSE MsgLoop(PrintMessage(
                              Log(hb, Entry(hb, m, origin, fr.rest, TRUE, "none")),
                              m, origin),
                          origin)
        ELSE MsgLoop(Log(hb, Entry(hb, m, origin, fr.rest, FALSE, "none")),
                     origin)

\* as MsgHandle, relaying the chunk once its frames have been handled
MsgHandleLate(h, data, origin) ==
    LET h1 == MsgLoop(BufAppend(h, data, origin), origin) IN
    IF h1.exc # "none" THEN h1 ELSE DummyHandle(h1, data, origin)

MsgHandle(h, data, origin) ==
    MsgLoop(BufAppend(DummyHandle(h, data, origin), data, origin), origin)

\* --------------------------------------------------- InjectorBridgeHandler
\* the counter of the last complete client frame written on the server
\* connection, 0 when there is none
LastCount(s) ==
    LET fs == ParseAll(Bytes(s), TRUE) IN
    IF fs = <<>> THEN 0 ELSE fs[Len(fs)].count

\* Msg.from_json of the four messages the bridge builds
ChatMsg(content) == [id |-> ChatId, count |-> 0, data |-> <<content, 0>>]
SearchMsg(itemid) == [id |-> SearchId, count |-> 0, data |-> <<itemid, 1>>]
LeaveMsg == [id |-> LeaveId, count |-> 0, data |-> <<>>]
UseMsg == [id |-> UseId, count |-> 0, data |-> <<ElemId, SkillUid>>]

\* send_to_server(data) with data a Msg
send_to_server(h, m) ==
    LET c == h.counter + 1 IN
    [h EXCEPT !.its = @ + 1,
              !.injLog = Append(@, [count |-> c,
                                    prev |-> LastCount(h.sent["coSer"])]),
              !.sent = sendall(h.sent, "coSer",
                               MsgBytes([m EXCEPT !.count = c], TRUE), "inj")]

\* send_to_server(data) with data a byte string
send_to_server_raw(h, data) ==
    [h EXCEPT !.its = @ + 1, !.sent = sendall(h.sent, "coSer", data, "inj")]

\* as send_to_client, without the increment
send_to_client_uncounted(h, data) ==
    [h EXCEPT !.sent = sendall(h.sent, "coJeu", data, "inj")]

\* send_to_client(data), data a Msg or a byte string
send_to_client(h, data) ==
    [h EXCEPT !.itc = @ + 1, !.sent = sendall(h.sent, "coJeu", data, "inj")]

ask_item_price(h, itemid) == send_to_server(h, SearchMsg(itemid))
send_message(h, content) == send_to_server(h, ChatMsg(content))

\* as DbAppend, on a deque without maxlen
DbAppendUnbounded(d, m) == Append(d, m)

\* self.db.append(msg) on a deque of maxlen db_size
DbAppend(d, m) ==
    LET a == Append(d, m) IN IF Len(a) > DbSize THEN Tail(a) ELSE a

\* as InjFullyRead, accepting any payload the decoder did not overrun
InjFullyReadLax(id, data) == Remaining(id, data) >= 0

\* the assert of InjectorBridgeHandler.handle
InjFullyRead(id, data) == Remaining(id, data) \in {0, HashLen}

\* InjectorBridgeHandler.handle_message: prints only
Inj_handle_message(h, m, origin) == h

\* the counter bookkeeping of InjectorBridgeHandler.handle for one frame
Recount(h, m, fc) ==
    IF fc THEN m.count + h.its - h.itc ELSE m.count

RECURSIVE InjLoop(_, _)
InjLoop(h, origin) ==
    LET fc == from_client(origin)
        fr == fromRaw(h.buf[origin], fc)
        m == fr.msg
        hb == [h EXCEPT !.buf[origin] = fr.rest]
    IN  IF m = None THEN h
        ELSE IF m.id \in msg_from_id
        THEN IF Remaining(m.id, m.data) < 0
             THEN Raise(Log(hb, Entry(hb, m, origin, fr.rest, FALSE, "IndexError")),
                        "IndexError")
             ELSE IF ~InjFullyRead(m.id, m.data)
             THEN Raise(Log(hb, Entry(hb, m, origin, fr.rest, FALSE,
                                      "AssertionError")),
                        "AssertionError")
             ELSE LET m2 == [m EXCEPT !.count = Recount(hb, m, fc)]
                      h2 == [hb EXCEPT
                               !.counter = IF fc THEN m2.count ELSE @ + 1,
                               !.db = DbAppend(@, m2)]
                      e == [Entry(hb, m, origin, fr.rest, FALSE, "none")
                               EXCEPT !.newcount = m2.count]
                  IN  IF h2.dumper = "broken"
                      THEN Raise(Log(h2, [e EXCEPT !.exc = "SinkError"]),
                                 "SinkError")
                      ELSE InjLoop(Inj_handle_message(
                                       Log(h2, [e EXCEPT !.called = TRUE]),
                                       m, origin),
                                   origin)
        ELSE [Log(hb, Entry(hb, m, origin, fr.rest, FALSE, "none"))
                 EXCEPT !.spin = TRUE]

InjHandle(h, data, origin) ==
    InjLoop(BufAppend(
                [h EXCEPT !.sent = sendall(h.sent, other[origin], data, "fwd")],
                data, origin),
            origin)

\* ------------------------------------------------------------- LucInjector
Luc_send_to_server(h, m) ==
    LET c == h.counter + 1 IN
    [h EXCEPT !.its = @ + 1,
              !.injLog = Append(@, [count |-> c,
                                    prev |-> LastCount(h.sent["coSer"])]),
              !.sent = sendall(h.sent, "coSer",
                               MsgBytes([m EXCEPT !.count = c], TRUE), "inj")]

Luc_send_message(h, content) == Luc_send_to_server(h, ChatMsg(content))
Luc_ask_item_price(h, itemid) == Luc_send_to_server(h, SearchMsg(itemid))
disconnect_hdv(h) == Luc_send_to_server(h, LeaveMsg)
connect_hdv(h) == Luc_send_to_server(h, UseMsg)

\* [None] * len(self.items)
Placeholders == [i \in 1..Len(Items) |-> NoItem]

\* as Automation, refilling the worklist when one item is left in it
AutomationTopsUp(h) ==
    IF h.script # "on" THEN h
    ELSE IF Len(h.itemsleft) <= 1
    THEN [h EXCEPT !.itemsleft = h.items]
    ELSE IF h.now - h.timer > PacingThreshold
    THEN LET acted ==
                 IF h.injections % 3 = 2
                 THEN connect_hdv(disconnect_hdv(h))
                 ELSE LET n == Len(h.itemsleft) IN
                      [Luc_ask_item_price(
                           [h EXCEPT !.itemsleft = Prefix(@, n - 1)],
                           h.itemsleft[n])
                         EXCEPT !.timer = h.now]
         IN  [acted EXCEPT !.injections = @ + 1]
    ELSE h

\* as Automation, taking the first element of the worklist
AutomationPopsFirst(h) ==
    IF h.script # "on" THEN h
    ELSE IF Len(h.itemsleft) = 0
    THEN [h EXCEPT !.itemsleft = h.items]
    ELSE IF h.now - h.timer > PacingThreshold
    THEN LET acted ==
                 IF h.injections % 3 = 2
                 THEN connect_hdv(disconnect_hdv(h))
                 ELSE [Luc_ask_item_price(
                           [h EXCEPT !.itemsleft = Tail(@)],
                           h.itemsleft[1])
                         EXCEPT !.timer = h.now]
         IN  [acted EXCEPT !.injections = @ + 1]
    ELSE h

\* as Automation, not looking at self.script
AutomationAlways(h) ==
    IF Len(h.itemsleft) = 0
    THEN [h EXCEPT !.itemsleft = h.items]
    ELSE IF h.now - h.timer > PacingThreshold
    THEN LET acted ==
                 IF h.injections % 3 = 2
                 THEN connect_hdv(disconnect_hdv(h))
                 ELSE LET n == Len(h.itemsleft) IN
                      [Luc_ask_item_price(
                           [h EXCEPT !.itemsleft = Prefix(@, n - 1)],
                           h.itemsleft[n])
                         EXCEPT !.timer = h.now]
         IN  [acted EXCEPT !.injections = @ + 1]
    ELSE h

\* the script == "on" part of handle_message
Automation(h) ==
    IF h.script # "on" THEN h
    ELSE IF Len(h.itemsleft) = 0
    THEN [h EXCEPT !.itemsleft = h.items]
    ELSE IF h.now - h.timer > PacingThreshold
    THEN LET acted ==
                 IF h.injections % 3 = 2
                 THEN connect_hdv(disconnect_hdv(h))
                 ELSE LET n == Len(h.itemsleft) IN
                      [Luc_ask_item_price(
                           [h EXCEPT !.itemsleft = Prefix(@, n - 1)],
                           h.itemsleft[n])
                         EXCEPT !.timer = h.now]
         IN  [acted EXCEPT !.injections = @ + 1]
    ELSE h

\* as Report, made only while the script is on
ReportIfRunning(h, m) ==
    IF h.script = "on" /\ m.data[1] > 0
    THEN IF h.net = "down"
         THEN Raise(h, "ConnectionError")
         ELSE [h EXCEPT !.reports = Append(@, SubSeq(m.data, 2, 5))]
    ELSE h

\* the ExchangeTypesItemsExchangerDescriptionForUserMessage branch
Report(h, m) ==
    IF m.data[1] > 0
    THEN IF h.net = "down"
         THEN Raise(h, "ConnectionError")
         ELSE [h EXCEPT !.reports = Append(@, SubSeq(m.data, 2, 5))]
    ELSE h

\* as Control, the start token building the list of placeholders without
\* copying the items into it
ControlNoCopy(h, m) ==
    IF m.data[1] = Stop
    THEN Luc_send_message([h EXCEPT !.script = "off"], Stooop)
    ELSE IF m.data[1] = Lessgo
    THEN Luc_send_message([h EXCEPT !.script = "on", !.timer = h.now,
                                    !.itemsleft = Placeholders],
                          Gooo)
    ELSE h

\* as Control, the start token leaving the worklist as it is
ControlKeepsWorklist(h, m) ==
    IF m.data[1] = Stop
    THEN Luc_send_message([h EXCEPT !.script = "off"], Stooop)
    ELSE IF m.data[1] = Lessgo
    THEN Luc_send_message([h EXCEPT !.script = "on", !.timer = h.now], Gooo)
    ELSE h

\* the ChatClientMultiMessage branch
Control(h, m) ==
    IF m.data[1] = Stop
    THEN Luc_send_message([h EXCEPT !.script = "off"], Stooop)
    ELSE IF m.data[1] = Lessgo
    THEN Luc_send_message([h EXCEPT !.script = "on", !.timer = h.now,
                                    !.itemsleft = h.items],
                          Gooo)
    ELSE h

\* what the calls between two states of the handler wrote on the server
\* connection
Wrote(h, g) == Bytes(Suffix(g.sent["coSer"], Len(h.sent["coSer"])))

\* the entry mlog keeps for one call of handle_message on message m: h is the
\* handler when the call starts, h1 after the script == "on" part, h2 when
\* the call is over
Call(h, h1, h2, m, origin) ==
    [o |-> origin, id |-> m.id, data |-> m.data,
     s0 |-> h.script, s1 |-> h1.script, s2 |-> h2.script,
     i0 |-> h.itemsleft, i1 |-> h1.itemsleft, i2 |-> h2.itemsleft,
     due |-> h.now - h.timer > PacingThreshold,
     t1kept |-> h1.timer = h.timer, t1set |-> h1.timer = h.now,
     t2kept |-> h2.timer = h1.timer, t2set |-> h2.timer = h.now,
     act |-> IF h1.injections # h.injections
             THEN IF h1.its - h.its = 2 THEN "refresh" ELSE "pop"
             ELSE IF h1.itemsleft # h.itemsleft THEN "refill" ELSE "none",
     at |-> IF h1.injections # h.injections THEN h.now ELSE 0,
     q1 |-> Wrote(h, h1), q2 |-> Wrote(h1, h2),
     rep |-> Suffix(h2.reports, Len(h.reports)),
     relayed |-> Fwd(h.sent[other[origin]]) = h.recvd[origin],
     exc |-> h2.exc]

\* the message types line 370 masks are none of the two the branches below
\* test for, so the mask only decides what is printed
Luc_handle_message(h, m, origin) ==
    LET h1 == Automation(h)
        h2 == IF m.id = ExchId THEN Report(h1, m)
              ELSE IF m.id = ChatId THEN Control(h1, m)
              ELSE h1
    IN  [h2 EXCEPT !.mlog = Append(@, Call(h, h1, h2, m, origin))]

RECURSIVE LucLoop(_, _)
LucLoop(h, origin) ==
    LET fr == fromRaw(h.buf[origin], from_client(origin))
        m == fr.msg
        hb == [h EXCEPT !.buf[origin] = fr.rest]
    IN  IF m = None THEN h
        ELSE IF m.id \in msg_from_id
        THEN IF Remaining(m.id, m.data) < 0
             THEN Raise(Log(hb, Entry(hb, m, origin, fr.rest, FALSE, "IndexError")),
                        "IndexError")
             ELSE IF ~FullyRead(m.id, m.data)
             THEN Raise(Log(hb, Entry(hb, m, origin, fr.rest, FALSE,
                                      "AssertionError")),
                        "AssertionError")
             ELSE LET h2 == Luc_handle_message(
                                Log(hb, Entry(hb, m, origin, fr.rest, TRUE, "none")),
                                m, origin)
                  IN  IF h2.exc # "none" THEN h2 ELSE LucLoop(h2, origin)
        ELSE LucLoop(Log(hb, Entry(hb, m, origin, fr.rest, FALSE, "none")),
                     origin)

\* as LucHandle, relaying the chunk once its frames have been handled
LucHandleLate(h, data, origin) ==
    LET h1 == LucLoop(BufAppend(h, data, origin), origin) IN
    IF h1.exc # "none" THEN h1 ELSE DummyHandle(h1, data, origin)

LucHandle(h, data, origin) ==
    LucLoop(BufAppend(DummyHandle(h, data, origin), data, origin), origin)

\* ----------------------------------------------------------- BridgeHandler
\* cls(coJeu, coSer).handle(data, origin), by the class proxy_callback built
handle(h, data, origin) ==
    CASE policy = "Dummy" -> DummyHandle(h, data, origin)
      [] policy = "Msg" -> MsgHandle(h, data, origin)
      [] policy = "Injector" -> InjHandle(h, data, origin)
      [] policy = "Luc" -> LucHandle(h, data, origin)

\* as Active, without the test for an empty read
ActiveAlways(data) == TRUE

\* if not data: active = False; break
Active(data) == data # <<>>

\* as SelectBreaks, without the test on xlist
SelectBreaksOnEmpty(rl, xl) == rl = <<>>

\* if xlist or not rlist: break
SelectBreaks(rl, xl) == xl # {} \/ rl = <<>>

\* as Finally, with the closes after the loop instead of in a finally clause
FinallyUnlessRaised(cl, reason) ==
    IF reason = "exception" THEN cl ELSE [c \in Conns |-> cl[c] + 1]

\* finally: for c in conns: c.close()
Finally(cl, reason) == [c \in Conns |-> cl[c] + 1]

Exit(reason) ==
    /\ pc' = "done"
    /\ why' = reason
    /\ closed' = Finally(closed, reason)

Min(a, b) == IF a < b THEN a ELSE b

\* the connections of rl in the order of conns
Ordered(rl) == SelectSeq(conns, LAMBDA c : c \in rl)

NoSel == [r |-> <<>>, x |-> {}]

\* ------------------------------------------------------------- environment
Fill == [i \in 1..HashLen |-> 100 + i]

Exact == [id |-> MoveId, data |-> <<5>>]

\* itemTypeDescriptions with two entries: each an objectGID and three prices
Results == <<2, 8, 10, 20, 30, 9, 11, 21, 31>>

\* the chat frames the client has sent so far
IsChat(m) == m.id = ChatId
Controls ==
    Len(SelectSeq(ParseAll(recvd["coJeu"] \o wire["coJeu"], TRUE), IsChat))

\* the frames the peer of connection c may send: frames the registry decodes
\* exactly, and by mode frames it decodes short or long and frames it does
\* not know, or the messages LucInjector reacts to
Payloads(c) ==
    CASE mode = "relay" ->
           IF policy = "Dummy" THEN {Exact}
           ELSE {Exact,
                 [id |-> MoveId, data |-> <<5, 6>>],
                 [id |-> UnknownId, data |-> <<5>>]}
                \cup (IF c = "coJeu"
                      THEN {[id |-> MoveId, data |-> <<5>> \o Fill],
                            [id |-> MoveId, data |-> <<>>]}
                      ELSE {})
                \cup (IF c = "coJeu" /\ policy = "Luc"
                      THEN {[id |-> ChatId, data |-> <<Lessgo, 0>>]}
                      ELSE {})
      [] mode = "inject" -> {Exact}
      [] mode = "script" ->
           IF c = "coJeu"
           THEN {Exact} \cup {[id |-> ChatId, data |-> <<t, 0>>] :
                                 t \in {Stop, Lessgo, Hello}}
           ELSE {Exact,
                 [id |-> ChatId, data |-> <<Lessgo, 0>>],
                 [id |-> ExchId, data |-> <<0>>],
                 [id |-> ExchId, data |-> Results]}
      [] mode = "auto" ->
           IF c = "coJeu"
           THEN {Exact}
                \cup (IF Controls < MaxControls
                      THEN {[id |-> ChatId, data |-> <<t, 0>>] :
                               t \in {Stop, Lessgo}}
                      ELSE {})
           ELSE {}

\* what a peer may write next on its end of connection c
Emissions(c) ==
    {MsgBytes([id |-> p.id, count |-> clientSeq + 1, data |-> p.data],
              from_client(c)) : p \in Payloads(c)}
    \cup (IF policy = "Dummy" /\ c = "coJeu" THEN {<<65, 66>>, <<67, 68>>} ELSE {})

\* the number of frames the peers send in a session
FrameBudget == IF mode = "auto" THEN MaxTurns ELSE MaxFrames

IsFrame(c, bytes) == fromRaw(bytes, from_client(c)).msg # None

PeerSend(c) ==
    /\ pc \in {"select", "iter"}
    /\ ~eof[c]
    /\ nframes < FrameBudget
    /\ \E bytes \in Emissions(c) :
          /\ wire' = [wire EXCEPT ![c] = @ \o bytes]
          /\ clientSeq' = IF c = "coJeu" /\ IsFrame(c, bytes)
                          THEN clientSeq + 1 ELSE clientSeq
    /\ nframes' = nframes + 1
    /\ UNCHANGED <<cut, eof, now, loopVars, cfgVars, selfVars, ninject>>

\* the peer closes its end once what it wrote has been read
PeerClose(c) ==
    /\ pc \in {"select", "iter"}
    /\ ~eof[c]
    /\ wire[c] = <<>>
    /\ eof' = [eof EXCEPT ![c] = TRUE]
    /\ UNCHANGED <<wire, cut, nframes, clientSeq, now, loopVars, cfgVars,
                   selfVars, ninject>>

TickSteps == {PacingThreshold, PacingThreshold + 1}

Tick ==
    /\ mode = "script"
    /\ pc \in {"select", "iter"}
    /\ \E d \in TickSteps : now + d <= MaxTime /\ now' = now + d
    /\ UNCHANGED <<wire, cut, eof, nframes, clientSeq, loopVars, cfgVars,
                   selfVars, ninject>>

\* the client sending its next frame once the bridge has handled the last
Turn ==
    /\ pc = "select"
    /\ \A c \in Conns : wire[c] = <<>>
    /\ PeerSend("coJeu")

\* the shortest time after which a scheduled action is due
Period == PacingThreshold + 1

\* time passing while loop() is blocked in select, nothing to read
Wait ==
    /\ mode = "auto"
    /\ pc = "select"
    /\ \A c \in Conns : wire[c] = <<>>
    /\ now + Period <= MaxClock
    /\ now' = now + Period
    /\ UNCHANGED <<wire, cut, eof, nframes, clientSeq, loopVars, cfgVars,
                   selfVars, ninject>>

\* ------------------------------------------------------------------ loop()
\* the connections a recv would not block on
Readable == {c \in Conns : wire[c] # <<>> \/ eof[c]}

\* rlist, wlist, xlist = select.select(conns, [], conns) and the test on it:
\* select has no timeout and returns once a connection is readable or in an
\* exceptional condition
Select ==
    /\ pc = "select"
    /\ \E xl \in {{}} \cup {{c} : c \in Conns} :
          /\ Readable # {} \/ xl # {}
          /\ sel' = [r |-> Ordered(Readable), x |-> xl]
          /\ IF SelectBreaks(Ordered(Readable), xl)
             THEN Exit("select")
             ELSE pc' = "iter" /\ UNCHANGED <<why, closed>>
    /\ ri' = 1
    /\ UNCHANGED <<excn, eofSeen, emptyHandled, envVars, cfgVars, selfVars,
                   ninject>>

\* the lengths recv(8192) may return on connection r: 0 at end of stream,
\* else all that is pending, or a part of it no longer than MaxCut unless
\* the previous recv already returned a part; a lone frame of a client that
\* waits for the bridge (mode "auto") comes in one piece
RecvLens(r) ==
    LET n == Min(Len(wire[r]), RecvSize) IN
    IF n = 0 THEN {0}
    ELSE {n} \cup (IF cut[r] \/ mode = "auto" THEN {}
                   ELSE 1..Min(n - 1, MaxCut))

\* whether the requests.get of this call of handle succeeds; only a call on
\* bytes of the server can reach it, the client sending no exchange
\* description
Outcomes(r) ==
    IF mode = "script" /\ r = "coSer" THEN {"up", "down"} ELSE {"up"}

\* one turn of `for r in rlist`: data = r.recv(8192), then the break or
\* self.handle(data, origin=r)
Read ==
    /\ pc = "iter"
    /\ LET r == sel.r[ri] IN
       \E n \in RecvLens(r), up \in Outcomes(r) :
          /\ LET data == Prefix(wire[r], n) IN
             /\ wire' = [wire EXCEPT ![r] = Suffix(@, n)]
             /\ cut' = [cut EXCEPT ![r] = n < Len(wire[r])]
             /\ eofSeen' = (eofSeen \/ data = <<>>)
             /\ IF ~Active(data)
                THEN /\ Exit("eof")
                     /\ UNCHANGED <<sel, ri, excn, emptyHandled, selfVars>>
                ELSE LET h == handle([Self EXCEPT !.recvd[r] = @ \o data,
                                                   !.net = up],
                                     data, r)
                     IN  /\ Commit(h)
                         /\ emptyHandled' = (emptyHandled \/ data = <<>>)
                         /\ excn' = h.exc
                         /\ IF h.exc # "none"
                            THEN Exit("exception") /\ UNCHANGED <<sel, ri>>
                            ELSE /\ UNCHANGED <<why, closed>>
                                 /\ IF h.spin
                                    THEN pc' = "spin" /\ UNCHANGED <<sel, ri>>
                                    ELSE IF ri < Len(sel.r)
                                    THEN /\ pc' = "iter"
                                         /\ ri' = ri + 1
                                         /\ UNCHANGED sel
                                    ELSE /\ pc' = "select"
                                         /\ ri' = 1
                                         /\ sel' = NoSel
    /\ UNCHANGED <<eof, nframes, clientSeq, now, cfgVars, ninject>>

\* the unknown-id branch of InjectorBridgeHandler.handle: print, sleep half a
\* second, and test the same msg again
Spin ==
    /\ pc = "spin"
    /\ now + 5 <= MaxTime
    /\ now' = now + 5
    /\ UNCHANGED <<wire, cut, eof, nframes, clientSeq, loopVars, cfgVars,
                   selfVars, ninject>>

\* ------------------------------------ calls made by the injector's owner
RawLeave == MsgBytes([LeaveMsg EXCEPT !.count = 1], TRUE)
MoveBytes == MsgBytes([id |-> MoveId, count |-> 0, data |-> <<5>>], FALSE)

\* they come from another thread, here while loop() waits in select and
\* no client frame is half relayed
Injecting ==
    /\ mode = "inject"
    /\ pc = "select"
    /\ buf["coJeu"] = <<>>
    /\ ninject < MaxInject
    /\ ninject' = ninject + 1
    /\ UNCHANGED <<loopVars, envVars, cfgVars>>

AskItemPrice == Injecting /\ Commit(ask_item_price(Self, 11971))

SendMessage == Injecting /\ Commit(send_message(Self, Hello))

SendToServerRaw == Injecting /\ Commit(send_to_server_raw(Self, RawLeave))

SendToClient == Injecting /\ Commit(send_to_client(Self, MoveBytes))

\* ------------------------------------------------------------ specification
Start ==
    /\ pc = "select"
    /\ sel = NoSel
    /\ ri = 1
    /\ wire = [c \in Conns |-> <<>>]
    /\ cut = [c \in Conns |-> FALSE]
    /\ eof = [c \in Conns |-> FALSE]
    /\ nframes = 0
    /\ clientSeq = 0
    /\ closed = [c \in Conns |-> 0]
    /\ why = "none"
    /\ excn = "none"
    /\ eofSeen = FALSE
    /\ emptyHandled = FALSE
    /\ recvd = [c \in Conns |-> <<>>]
    /\ sent = [c \in Conns |-> <<>>]
    /\ buf = [c \in Conns |-> <<>>]
    /\ flog = <<>>
    /\ counter = 0
    /\ itc = 0
    /\ its = 0
    /\ db = <<>>
    /\ injLog = <<>>
    /\ ninject = 0
    /\ script = "off"
    /\ itemsleft = Placeholders
    /\ timer = 0
    /\ injections = 0
    /\ now = 0
    /\ reports = <<>>
    /\ items = Items
    /\ mlog = <<>>

\* any of the four policies, relaying frames the registry decodes or not
Init ==
    /\ mode = "relay"
    /\ policy \in {"Dummy", "Msg", "Injector", "Luc"}
    /\ dumper = "none"
    /\ Start

Next ==
    \/ \E c \in Conns : PeerSend(c)
    \/ \E c \in Conns : PeerClose(c)
    \/ Select
    \/ Read
    \/ Spin

Spec == Init /\ [][Next]_vars

\* InjectorBridgeHandler with its owner injecting
InitInj ==
    /\ mode = "inject"
    /\ policy = "Injector"
    /\ dumper = "none"
    /\ Start

NextInj ==
    \/ \E c \in Conns : PeerSend(c)
    \/ \E c \in Conns : PeerClose(c)
    \/ Select
    \/ Read
    \/ AskItemPrice
    \/ SendMessage
    \/ SendToServerRaw
    \/ SendToClient

SpecInj == InitInj /\ [][NextInj]_vars

\* LucInjector driven by control messages and the clock
InitLuc ==
    /\ mode = "script"
    /\ policy = "Luc"
    /\ dumper = "none"
    /\ Start

NextLuc ==
    \/ \E c \in Conns : PeerSend(c)
    \/ Tick
    \/ Select
    \/ Read

SpecLuc == InitLuc /\ [][NextLuc]_vars

\* LucInjector through a whole round of its worklist
InitAuto ==
    /\ mode = "auto"
    /\ policy = "Luc"
    /\ dumper = "none"
    /\ Start

NextAuto ==
    \/ Turn
    \/ Wait
    \/ Select
    \/ Read

SpecAuto == InitAuto /\ [][NextAuto]_vars

\* InjectorBridgeHandler with a dumper and LucInjector with its reporting
\* call, the sink working or not
InitSink ==
    /\ mode = "script"
    /\ policy \in {"Injector", "Luc"}
    /\ dumper \in (IF policy = "Injector" THEN {"ok", "broken"} ELSE {"none"})
    /\ Start

NextSink ==
    \/ \E c \in Conns : PeerSend(c)
    \/ \E c \in Conns : PeerClose(c)
    \/ Tick
    \/ Select
    \/ Read

SpecSink == InitSink /\ [][NextSink]_vars

\* ================================================================== claims
AllClosedOnce == \A c \in Conns : closed[c] = 1

Entries == {flog[i] : i \in 1..Len(flog)}

\* C1: under DummyBridgeHandler the bytes written on a connection are exactly
\* the bytes read from the opposite one, in the order read, however the reads
\* cut them; nothing read from a connection is written back on it.
C1_ForwardIdentity ==
    policy = "Dummy" => \A c \in Conns : Bytes(sent[other[c]]) = recvd[c]

\* two writes of the client, AB then CD, read as ABC so far
C1_Witness ==
    /\ policy = "Dummy"
    /\ Bytes(sent["coSer"]) = <<65, 66, 67>>
    /\ wire["coJeu"] = <<68>>
    /\ sent["coJeu"] = <<>>

\* C2: while loop() runs no connection is closed, and once it has returned,
\* whatever made it leave, each connection has been closed exactly once.
C2_ClosedOnce ==
    \A c \in Conns : closed[c] = IF pc = "done" THEN 1 ELSE 0

\* loop() left by an exception of handle
C2_Witness ==
    /\ pc = "done"
    /\ why = "exception"
    /\ excn = "AssertionError"
    /\ AllClosedOnce

\* C3: once a recv has returned b"" the loop is over: handle was not called
\* for the empty read, no later step reads or handles anything, and both
\* connections are closed; under DummyBridgeHandler the other side has then
\* received exactly what was read.
C3_EofEndsLoop ==
    /\ [](eofSeen => /\ pc = "done"
                     /\ why = "eof"
                     /\ ~emptyHandled
                     /\ AllClosedOnce
                     /\ policy = "Dummy" =>
                            \A c \in Conns : Bytes(sent[other[c]]) = recvd[c])
    /\ [][eofSeen' => selfVars' = selfVars]_vars

\* AB then CD relayed, then the empty read on coJeu while coSer was ready too
C3_Witness ==
    /\ eofSeen
    /\ policy = "Dummy"
    /\ sel.r = <<"coJeu", "coSer">>
    /\ ri = 1
    /\ Bytes(sent["coSer"]) = <<65, 66, 67, 68>>
    /\ AllClosedOnce

\* C4: a select that reports an exceptional condition, or no readable
\* connection, ends the loop in that very step: nothing is read, nothing is
\* handed to handle, even if a connection was reported readable.
C4_BreakOnExceptional ==
    [][(pc = "select" /\ pc' # "select" /\ (sel'.x # {} \/ sel'.r = <<>>))
          => /\ pc' = "done"
             /\ why' = "select"
             /\ wire' = wire
             /\ selfVars' = selfVars]_vars

\* the loop left on an exceptional condition with a readable connection
C4_Witness ==
    /\ pc = "done"
    /\ why = "select"
    /\ sel.x # {}
    /\ sel.r # <<>>
    /\ wire[sel.r[1]] # <<>>

\* the frames the server connection has been written, in order
ServerFrames == ParseAll(Bytes(sent["coSer"]), TRUE)

\* C5: the counters of the frames written on the server connection, genuine
\* and injected through send_to_server with a structured message, go up by
\* one from each frame to the next.
C5_Gapless ==
    its = Len(injLog) =>
        \A i \in 1..(Len(ServerFrames) - 1) :
            ServerFrames[i + 1].count = ServerFrames[i].count + 1

\* the client frames handle has seen, and the frames relayed to the server
IsClientEntry(e) == e.o = "coJeu"
ClientEntries == SelectSeq(flog, IsClientEntry)
RelayedFrames == ParseAll(Fwd(sent["coSer"]), TRUE)

\* C6: every genuine client frame is relayed to the server carrying its own
\* counter plus injected_to_server - injected_to_client as they were when
\* the frame was seen.
C6_Rewritten ==
    \A i \in 1..Len(ClientEntries) :
        /\ i <= Len(RelayedFrames)
        /\ RelayedFrames[i].count = ClientEntries[i].newcount

\* C7: a structured message given to send_to_server leaves with the counter
\* of the last client frame written on the server connection plus one.
C7_NextCounter ==
    \A i \in 1..Len(injLog) : injLog[i].count = injLog[i].prev + 1

\* C8 as claimed: in every parsing policy a known frame whose decoding leaves
\* bytes unread raises the assertion, is not given to handle_message, and
\* ends the loop with both connections closed.
C8_AnyRemainderFatal ==
    \A e \in Entries :
        (e.known /\ e.rem > 0) =>
            /\ e.exc = "AssertionError"
            /\ ~e.called
            /\ pc = "done"
            /\ excn = "AssertionError"
            /\ AllClosedOnce

\* C8 amended: the same, except that InjectorBridgeHandler accepts a frame
\* that leaves exactly 48 bytes unread and hands it to handle_message.
C8_RemainderFatal ==
    \A e \in Entries :
        (e.known /\ e.rem > 0) =>
            IF policy = "Injector" /\ e.rem = HashLen
            THEN e.exc # "AssertionError"
                 /\ (dumper = "none" => e.called /\ e.exc = "none")
            ELSE /\ e.exc = "AssertionError"
                 /\ ~e.called
                 /\ pc = "done"
                 /\ excn = "AssertionError"
                 /\ AllClosedOnce

\* InjectorBridgeHandler met a frame with one byte unread, and LucInjector
\* one with 48
C8_Witness ==
    /\ pc = "done"
    /\ \E e \in Entries :
          /\ e.exc = "AssertionError"
          /\ \/ policy = "Injector" /\ e.rem = 1
             \/ policy = "Luc" /\ e.rem = HashLen

\* C9: a frame whose id the registry does not know is skipped, without a
\* call of handle_message and without an exception, and handle returns with
\* no complete frame left in the buffer it was extracted from.
C9_UnknownSkipped ==
    \A e \in Entries :
        ~e.known =>
            /\ ~e.called
            /\ e.exc = "none"
            /\ pc # "spin"
            /\ (pc \in {"select", "iter"} =>
                   fromRaw(buf[e.o], from_client(e.o)).msg = None)

\* C10: in the parsing policies every byte read from a connection has been
\* written unchanged, in order, on the opposite one by the time handle is
\* over, however it ends, and each frame was extracted only after its last
\* byte had been written there.
C10_RelayFirst ==
    policy # "Dummy" =>
        /\ \A c \in Conns : Fwd(sent[other[c]]) = recvd[c]
        /\ \A e \in Entries : e.relayed

\* an unknown frame skipped, then a frame that fails the assertion, both
\* relayed
C10_Witness ==
    /\ policy \in {"Msg", "Luc"}
    /\ excn = "AssertionError"
    /\ Len(flog) = 2
    /\ ~flog[1].known
    /\ flog[2].exc = "AssertionError"
    /\ flog[2].relayed
    /\ Fwd(sent["coSer"]) = recvd["coJeu"]
    /\ recvd["coJeu"] # <<>>

\* ------------------------------------------------- LucInjector's automation
Calls == {mlog[i] : i \in 1..Len(mlog)}

IsStart(k) == k.id = ChatId /\ k.data[1] = Lessgo
IsStop(k) == k.id = ChatId /\ k.data[1] = Stop

\* C11 as claimed: the script is off until a start token is processed; the
\* start token leaves it on, the timer at the current time and the worklist
\* full; the stop token leaves it off; a chat message with any other content
\* leaves script, timer and worklist as they were before the message.
C11_OtherInert ==
    /\ (\A k \in Calls : ~IsStart(k)) => script = "off"
    /\ \A k \in Calls :
          k.id = ChatId =>
              IF IsStart(k) THEN k.s2 = "on" /\ k.t2set /\ k.i2 = Items
              ELSE IF IsStop(k) THEN k.s2 = "off"
              ELSE /\ k.s2 = k.s0
                   /\ k.t1kept /\ k.t2kept
                   /\ k.i2 = k.i0

\* C11 amended: the same, except that a chat message with any other content
\* is a frame like another for the pacing: while the script is on it may
\* trigger the scheduled action, which changes the timer and the worklist;
\* what the message's own content changes is nothing, and with the script
\* off script, timer and worklist are as before the message.
C11_Control ==
    /\ (\A k \in Calls : ~IsStart(k)) => script = "off"
    /\ \A k \in Calls :
          k.id = ChatId =>
              IF IsStart(k) THEN k.s2 = "on" /\ k.t2set /\ k.i2 = Items
              ELSE IF IsStop(k) THEN k.s2 = "off"
              ELSE /\ k.s2 = k.s0
                   /\ k.t2kept
                   /\ k.i2 = k.i1
                   /\ k.s0 = "off" => (k.t1kept /\ k.i1 = k.i0)

\* a start, then after the pacing threshold a chat message of other content,
\* which pops the worklist
C11_Witness ==
    /\ Len(mlog) = 2
    /\ IsStart(mlog[1]) /\ mlog[1].s0 = "off" /\ mlog[1].i0 = Placeholders
    /\ mlog[2].id = ChatId /\ mlog[2].data[1] = Hello
    /\ mlog[2].act = "pop"
    /\ script = "on"

IsAction(k) == k.act \in {"pop", "refresh"}

\* the calls of handle_message that processed a start token, and for one of
\* them the scheduled actions from the next call up to the call that
\* processes the next start token (its scheduled action comes before its
\* token is looked at)
Starts == {i \in 1..Len(mlog) : IsStart(mlog[i])}
NextStart(i) ==
    LET later == {j \in Starts : j > i} IN
    IF later = {} THEN Len(mlog)
    ELSE CHOOSE j \in later : \A l \in later : j <= l
ActionsSince(i) == SelectSeq(SubSeq(mlog, i + 1, NextStart(i)), IsAction)

\* C12: counting the scheduled actions since a start token was processed,
\* every third one is the leave / re-enter pair and the others are worklist
\* pops, also when the start follows a stop or another start.
C12_ThirdIsRefresh ==
    \A i \in Starts :
        \A n \in 1..Len(ActionsSince(i)) :
            ActionsSince(i)[n].act = IF n % 3 = 0 THEN "refresh" ELSE "pop"

\* the frames LucInjector has written on the server connection by itself
IsInj(e) == e[2] = "inj"
Injected == ParseAll(Bytes(SelectSeq(sent["coSer"], IsInj)), TRUE)
IsQuery(m) == m.id \in {SearchId, LeaveId, UseId}

\* C13: a message handled while the script is off, as it is from a stop
\* token until the next start token, injects no item query and no leave /
\* re-enter pair, however long after the last action it comes: the only
\* frames LucInjector wrote by itself are those the calls made with the
\* script on account for; and every chunk read in the meantime is written
\* unchanged on the opposite connection.
C13_IdleInjectsNothing ==
    policy = "Luc" =>
        /\ \A k \in Calls :
              k.s0 = "off" =>
                  /\ k.act = "none"
                  /\ k.q1 = <<>>
                  /\ ~IsStart(k) => k.s2 = "off"
        /\ \A i \in 1..Len(mlog) :
              (i > 1 /\ IsStop(mlog[i - 1])) => mlog[i].s0 = "off"
        /\ Len(SelectSeq(Injected, IsQuery))
              = Len(SelectSeq(mlog, LAMBDA k : k.s0 = "on" /\ k.act = "pop"))
                + 2 * Len(SelectSeq(mlog, LAMBDA k :
                                              k.s0 = "on" /\ k.act = "refresh"))
        /\ \A c \in Conns : Fwd(sent[other[c]]) = recvd[c]

\* a start, a stop, then a frame relayed more than the pacing threshold
\* after the stop, with nothing injected for it
C13_Witness ==
    /\ Len(mlog) >= 3
    /\ IsStart(mlog[1]) /\ mlog[1].s2 = "on"
    /\ IsStop(mlog[2]) /\ mlog[2].s0 = "on"
    /\ mlog[3].s0 = "off" /\ mlog[3].due /\ mlog[3].act = "none"
    /\ mlog[3].id = MoveId
    /\ Fwd(sent["coSer"]) = recvd["coJeu"]
    /\ Len(ParseAll(recvd["coJeu"], TRUE)) = 3

\* the calls of handle_message that performed a scheduled action, in order
Actions == SelectSeq(mlog, IsAction)

\* C14: a frame triggers at most one scheduled action, a pop with its query
\* or a leave / re-enter pair; every scheduled action leaves the timer at the
\* current time; and from a scheduled action to the next more than the
\* pacing threshold elapses.
C14_Paced ==
    /\ \A k \in Calls :
          Len(ParseAll(k.q1, TRUE)) = CASE k.act = "pop" -> 1
                                        [] k.act = "refresh" -> 2
                                        [] OTHER -> 0
    /\ \A k \in Calls : IsAction(k) => k.t1set
    /\ \A n \in 1..(Len(Actions) - 1) :
          Actions[n + 1].at - Actions[n].at > PacingThreshold

\* C15: a failure of the dumper in InjectorBridgeHandler.handle or of the
\* reporting call in LucInjector.handle_message does not leave handle: no
\* frame's handling ends with it and the loop is not left because of it.
C15_SinkSwallowed ==
    /\ excn \notin {"SinkError", "ConnectionError"}
    /\ \A e \in Entries : e.exc \notin {"SinkError", "ConnectionError"}
    /\ \A k \in Calls : k.exc = "none"

RECURSIVE Reported(_)
Reported(l) == IF l = <<>> THEN <<>> ELSE l[1].rep \o Reported(Tail(l))

\* C16: a call of handle_message makes a report exactly when its message is
\* the item description response with a non-empty list, script on or off;
\* the report is one, for the first entry's objectGID and three prices,
\* unless the reporting call itself fails; no report is made otherwise.
C16_ReportOnResult ==
    policy = "Luc" =>
        /\ \A k \in Calls :
              IF k.id = ExchId /\ k.data[1] > 0
              THEN \/ k.exc = "none" /\ k.rep = <<SubSeq(k.data, 2, 5)>>
                   \/ k.exc = "ConnectionError" /\ k.rep = <<>>
              ELSE k.rep = <<>> /\ k.exc = "none"
        /\ reports = Reported(mlog)

\* a start, then the response with two entries, reported while the script
\* is on
C16_Witness ==
    /\ Len(mlog) = 2
    /\ IsStart(mlog[1])
    /\ mlog[2].s0 = "on"
    /\ mlog[2].id = ExchId
    /\ mlog[2].o = "coSer"
    /\ reports = <<<<8, 10, 20, 30>>>>

\* ------------------------------------------- InjectorBridgeHandler's fields
\* the frames of flog that have a known id and pass the decode check, as the
\* messages db is given: the frame with its rewritten counter
Passed(e) == e.known /\ e.rem \in {0, HashLen}
AsMsg(e) == [id |-> e.id, count |-> e.newcount, data |-> e.data]
Appended ==
    LET p == SelectSeq(flog, Passed) IN [i \in 1..Len(p) |-> AsMsg(p[i])]

\* the last n elements of s, all of s when it has fewer
Last(s, n) == IF Len(s) <= n THEN s ELSE Suffix(s, Len(s) - n)

InjLen(s, c) == Len(SelectSeq(s[c], IsInj))

\* C18: injected_to_server and injected_to_client never decrease; a call of
\* send_to_server, with bytes or with a message, adds one to the first and
\* leaves the second; a call of send_to_client adds one to the second and
\* leaves the first; no other step, handle on a chunk among them, changes
\* either.
C18_Counters ==
    [][LET ds == InjLen(sent', "coSer") - InjLen(sent, "coSer")
           dc == InjLen(sent', "coJeu") - InjLen(sent, "coJeu")
       IN  /\ its' >= its
           /\ itc' >= itc
           /\ ninject' # ninject =>
                 \/ ds > 0 /\ dc = 0 /\ its' = its + 1 /\ itc' = itc
                 \/ dc > 0 /\ ds = 0 /\ itc' = itc + 1 /\ its' = its
           /\ ninject' = ninject =>
                 /\ its' = its /\ itc' = itc
                 /\ ds = 0 /\ dc = 0]_vars

\* one call of each kind, and a chunk from each side handled after them
C18_Witness ==
    /\ policy = "Injector"
    /\ its = 1
    /\ itc = 1
    /\ ninject = 2
    /\ Len(flog) = 2
    /\ flog[1].o # flog[2].o
    /\ injLog = <<>>

\* C19: itemsleft changes only inside handle_message; its scheduled part
\* changes it only with the script on, to the full list when it was empty and
\* by removing its last element otherwise; the rest of the call changes it
\* only for a start token, to the full list; with the script off a message
\* other than a start token leaves it as it was; and items is never changed.
C19_WorklistFrame ==
    policy = "Luc" =>
        /\ items = Items
        /\ itemsleft = IF mlog = <<>> THEN Placeholders
                       ELSE mlog[Len(mlog)].i2
        /\ \A i \in 1..Len(mlog) :
              mlog[i].i0 = IF i = 1 THEN Placeholders ELSE mlog[i - 1].i2
        /\ \A k \in Calls :
              /\ k.i1 # k.i0 =>
                    /\ k.s0 = "on"
                    /\ IF k.i0 = <<>> THEN k.i1 = Items
                       ELSE k.i1 = Prefix(k.i0, Len(k.i0) - 1)
              /\ k.i2 # k.i1 => IsStart(k) /\ k.i2 = Items
              /\ (k.s0 = "off" /\ ~IsStart(k)) => k.i2 = k.i0

\* the worklist emptied by three pops and found empty by the next frame,
\* which refills it
C19_Witness ==
    /\ \E k \in Calls :
          /\ k.s0 = "on"
          /\ k.i0 = <<>>
          /\ k.i2 = Items
          /\ k.act = "refill"
          /\ ~IsStart(k)
    /\ itemsleft = Items
    /\ injections = 4

\* C20: a chat message with the start or the stop token read from the server
\* connection is not a control message: what follows the scheduled part of
\* its handling changes neither script, timer nor worklist and writes
\* nothing on the server connection.
C20_ClientOnly ==
    \A k \in Calls :
        (k.o = "coSer" /\ (IsStart(k) \/ IsStop(k))) =>
            /\ k.s2 = k.s1
            /\ k.t2kept
            /\ k.i2 = k.i1
            /\ k.q2 = <<>>

\* the bytes of a start frame and of a movement frame as the client sends
\* them one after the other, and of the answer to the start token
StartThenMove ==
    MsgBytes([id |-> ChatId, count |-> 1, data |-> <<Lessgo, 0>>], TRUE)
    \o MsgBytes([id |-> MoveId, count |-> 2, data |-> <<5>>], TRUE)
GoooBytes == MsgBytes([ChatMsg(Gooo) EXCEPT !.count = 1], TRUE)

\* C21: when a call of handle_message writes a message of its own on the
\* server connection, for a control token or for a scheduled action, every
\* byte read so far from the connection of the triggering frame, the whole
\* of its chunk included, has already been written unchanged on the opposite
\* connection; so on the server connection the relayed bytes make up what
\* was read from the client and the injected frames come after the chunk.
C21_InjectAfterRelay ==
    policy = "Luc" =>
        /\ \A k \in Calls : (k.q1 # <<>> \/ k.q2 # <<>>) => k.relayed
        /\ Fwd(sent["coSer"]) = recvd["coJeu"]

\* a start frame and a movement frame read as one chunk: the answer to the
\* start token is on the server connection after both
C21_Witness ==
    /\ policy = "Luc"
    /\ Len(mlog) = 2
    /\ IsStart(mlog[1]) /\ mlog[1].o = "coJeu" /\ mlog[1].q2 = GoooBytes
    /\ Bytes(sent["coSer"]) = StartThenMove \o GoooBytes
    /\ sent["coSer"][Len(StartThenMove)][2] = "fwd"
    /\ sent["coSer"][Len(StartThenMove) + 1][2] = "inj"

\* the frames a call's scheduled part wrote on the server connection
Queries(k) == ParseAll(k.q1, TRUE)

\* the first n actions of a round that starts with injections at 0 and the
\* worklist [7, 8, 9]: what each does and the item it asks for
Round == <<[act |-> "pop", item |-> 9], [act |-> "pop", item |-> 8],
           [act |-> "refresh", item |-> NoItem], [act |-> "pop", item |-> 7]>>
Fresh(i) == SelectSeq(SubSeq(mlog, 1, i), IsAction) = <<>>

\* C22: a pop removes the last element of the worklist and nothing else, and
\* writes one search frame, for that element, on the server connection; and
\* the scheduled actions that follow a start processed before any action
\* are, up to the refill, a pop for 9, a pop for 8, the leave / re-enter pair
\* and a pop for 7.
C22_PopsLast ==
    policy = "Luc" =>
        /\ \A k \in Calls :
              k.act = "pop" =>
                  /\ k.i0 # <<>>
                  /\ k.i1 = Prefix(k.i0, Len(k.i0) - 1)
                  /\ Len(Queries(k)) = 1
                  /\ Queries(k)[1].id = SearchId
                  /\ Queries(k)[1].data = <<k.i0[Len(k.i0)], 1>>
        /\ \A i \in Starts :
              Fresh(i) =>
                  \A n \in 1..Min(Len(ActionsSince(i)), Len(Round)) :
                      LET k == ActionsSince(i)[n] IN
                      /\ k.act = Round[n].act
                      /\ k.act = "pop" => Queries(k)[1].data[1] = Round[n].item

\* a start and the four actions of a whole round
C22_Witness ==
    /\ Len(mlog) = 5
    /\ IsStart(mlog[1])
    /\ Len(ActionsSince(1)) = 4
    /\ Queries(mlog[5])[1].data[1] = 7
    /\ itemsleft = <<>>
    /\ Len(SelectSeq(Injected, IsQuery)) = 5

\* C23: with the script on, a frame that finds the worklist empty refills it,
\* writes nothing on the server connection and leaves injections as it is;
\* and such a refill is made only when more than the pacing threshold has
\* elapsed since the timer was set, and leaves the timer at the current time.
C23_RefillOnTick ==
    \A k \in Calls :
        /\ (k.s0 = "on" /\ k.i0 = <<>>) =>
              k.act = "refill" /\ k.i1 = Items /\ k.q1 = <<>>
        /\ k.act = "refill" => k.due /\ k.t1set

\* ------------------------------------------------------- frame extraction
\* a frame with a known id that the policy's decode check accepts
IsKnown(m) ==
    /\ m.id \in msg_from_id
    /\ IF policy = "Injector" THEN InjFullyRead(m.id, m.data)
       ELSE FullyRead(m.id, m.data)

\* the frames handle_message was called for, of those extracted from
\* connection c, and the complete frames with a known id of what was read
\* from c, both in order
CalledOn(c) ==
    LET l == SelectSeq(flog, LAMBDA e : e.o = c /\ e.called) IN
    [i \in 1..Len(l) |-> [id |-> l[i].id, count |-> l[i].count,
                          data |-> l[i].data]]
KnownRead(c) == SelectSeq(ParseAll(recvd[c], from_client(c)), IsKnown)

\* C24: in the three parsing policies, as long as no exception has left
\* handle, handle_message has been called once for each complete frame with
\* a known id, decoded as the policy checks, of the bytes read from a
\* connection, in the order of the stream, whether the frames came several
\* in a chunk or in pieces, and for no other; and between two calls of
\* handle neither buffer holds a complete frame.
C24_Extraction ==
    (policy # "Dummy" /\ excn = "none") =>
        /\ \A c \in Conns : CalledOn(c) = KnownRead(c)
        /\ pc \in {"select", "iter"} =>
              \A c \in Conns : fromRaw(buf[c], from_client(c)).msg = None

\* the elements of a sequence
Range(s) == {s[i] : i \in 1..Len(s)}
IsSearch(m) == m.id = SearchId

\* C25: every search frame LucInjector writes by itself asks for an element
\* of items: the placeholders itemsleft is built with are replaced by the
\* items before the script can be on, so no pop takes one.
C25_NoPlaceholder ==
    policy = "Luc" =>
        /\ \A k \in Calls :
              k.act = "pop" =>
                  /\ k.i0[Len(k.i0)] \in Range(Items)
                  /\ Queries(k)[1].data[1] \in Range(Items)
        /\ \A i \in 1..Len(Injected) :
              IsSearch(Injected[i]) => Injected[i].data[1] \in Range(Items)
        /\ script = "on" => NoItem \notin Range(itemsleft)
        /\ NoItem \notin Range(Items)

\* a stop token met with the placeholders still in the worklist, then a
\* start and, after the pacing threshold, the first pop
C25_Witness ==
    /\ Len(mlog) = 3
    /\ IsStop(mlog[1]) /\ mlog[1].i2 = Placeholders
    /\ IsStart(mlog[2]) /\ mlog[2].i0 = Placeholders
    /\ mlog[3].act = "pop"
    /\ Queries(mlog[3])[1].data = <<9, 1>>
    /\ itemsleft = <<7, 8>>

====
